---- MODULE Spec2Model ----
(***************************************************************************)
(* The blog content repository: the four tables of server/src/db/schema.ts *)
(* and the handlers that write them (createBlogPost, updateBlogPost,       *)
(* deleteBlogPost, deleteTag, deleteCategory, updateCategory, updateTag,   *)
(* createCategory, createTag) and read them (getBlogPost, getBlogPosts,    *)
(* the route getPublishedBlogPosts).                                       *)
(*                                                                         *)
(* Spec, SpecTags and SpecRefs run the writes within one tick of the       *)
(* clock; SpecList, SpecUpdate and SpecFields let time pass between the    *)
(* calls.  A query without an order, or with rows that tie in its order,   *)
(* may deliver those rows in any order: the read handlers return any of    *)
(* the results the database may produce.                                   *)
(*                                                                         *)
(* The handlers run in no transaction.  In SpecSlugs, SpecRace, SpecRetry, *)
(* SpecUpdateDelete and SpecTwoUpdates a call of createBlogPost,           *)
(* updateBlogPost, deleteBlogPost, deleteTag or deleteCategory is a        *)
(* sequence of store calls, each one atomic statement, and the store calls *)
(* of the clients interleave; in SpecRetry a store call may fail and the   *)
(* client makes the call again.  SpecRoundTrip reads a post back after its *)
(* creation; SpecPublished starts from a store of more posts than one      *)
(* default page holds.                                                     *)
(*                                                                         *)
(* A table is the set of its rows.  blog_post_tags has no unique           *)
(* constraint on (blog_post_id, tag_id); no handler reads its serial id,   *)
(* so the table is kept as the bag of its (blog_post_id, tag_id) rows.     *)
(* An input field that is undefined in the TypeScript input is a field     *)
(* absent from the input record; a null is NULL.                           *)
(***************************************************************************)
EXTENDS Integers, Sequences, FiniteSets, Bags, TLC

\* ---- bounds ----
NumCategories == 1      \* categories 1..NumCategories exist initially
NumTags == 2            \* tags 1..NumTags exist initially
MaxPosts == 2           \* the blog_posts serial is never drawn beyond this
MaxTagIds == 2          \* longest tag_ids list of an input
MaxClock == 2           \* the clock is not advanced beyond this tick
TicksPerMilli == 2      \* ticks of a timestamp column in one JavaScript millisecond
MaxRetries == 1         \* a call that failed is made again at most this often
MaxNewRows == 1         \* categories and tags created beyond the initial ones

\* SQL NULL / a JavaScript null in a nullable integer or text position; the
\* texts of a nullable text column (excerpt, description) are numbered from 1
NULL == -1

Titles == <<"T", "U">>
Slugs == <<"s1", "s2", "s3", "s4">>
Contents == <<"c", "d">>
Authors == <<"a", "b">>

VARIABLES
  categories,          \* rows of categoriesTable
  tags,                \* rows of tagsTable
  blog_posts,          \* rows of blogPostsTable
  blog_post_tags,      \* bag of rows of blogPostTagsTable
  blog_posts_id_seq,   \* last value drawn from the serial of blog_posts.id
  now,                 \* the clock, in the ticks of a timestamp column
  ret,                 \* the last handler call: its input, outcome and store calls
  categories_id_seq,   \* last value drawn from the serial of categories.id
  tags_id_seq,         \* last value drawn from the serial of tags.id
  clients              \* for each client, its call in flight or its last call

vars == <<categories, tags, blog_posts, blog_post_tags, blog_posts_id_seq, now, ret,
          categories_id_seq, tags_id_seq, clients>>

\* ---- JavaScript values ----
\* input.f !== undefined
Has(input, f) == f \in DOMAIN input

\* if (input.f): undefined, null and 0 are falsy
Truthy(input, f) == Has(input, f) /\ input[f] # NULL /\ input[f] # 0

\* C6 mutant: the filter keeps the ids that were found instead of the missing ones
RECURSIVE FilterFound(_, _)
FilterFound(s, keep) ==
  IF s = <<>> THEN <<>>
  ELSE (IF Head(s) \in keep THEN <<>> ELSE <<Head(s)>>) \o FilterFound(Tail(s), keep)

\* C26 mutant: the filter stops at the first element it keeps
RECURSIVE FilterFirst(_, _)
FilterFirst(s, keep) ==
  IF s = <<>> THEN <<>>
  ELSE IF Head(s) \in keep THEN <<Head(s)>> ELSE FilterFirst(Tail(s), keep)

\* Array.prototype.filter
RECURSIVE Filter(_, _)
Filter(s, keep) ==
  IF s = <<>> THEN <<>>
  ELSE (IF Head(s) \in keep THEN <<Head(s)>> ELSE <<>>) \o Filter(Tail(s), keep)

Range(s) == {s[i] : i \in DOMAIN s}

\* ---- time ----
\* C20 mutant: the handler writes a fixed date
NewDateEpoch(t) == 0

\* new Date(): the clock read by the handler, cut to whole milliseconds
NewDate(t) == t - (t % TicksPerMilli)

\* defaultNow(): the clock read by the database, at the column's resolution
DefaultNow(t) == t

\* ---- store calls (drizzle queries against the tables) ----
\* db.select().from(t).where(eq(t.id, id))
SelectWhereId(table, id) == {r \in table : r.id = id}

\* db.select().from(tagsTable).where(inArray(tagsTable.id, ids))
SelectWhereIdInArray(table, ids) == {r \in table : r.id \in Range(ids)}

\* C8 mutant: the delete has lost its where clause
DeleteEveryRow(table, id) == {}

\* db.delete(t).where(eq(t.id, id))
DeleteWhereId(table, id) == {r \in table : r.id # id}

\* C22 mutant: no association row is built
TagRowsNone(post_id, tag_ids) == EmptyBag

\* tag_ids.map(tag_id => ({blog_post_id, tag_id})): the rows, as a bag
TagRows(post_id, tag_ids) ==
  LET row(i) == [blog_post_id |-> post_id, tag_id |-> tag_ids[i]]
      rows == {row(i) : i \in DOMAIN tag_ids}
  IN  [r \in rows |-> Cardinality({i \in DOMAIN tag_ids : row(i) = r})]

\* db.insert(blogPostTagsTable).values(rows): no constraint rejects a row
InsertBlogPostTags(table, rows) == table (+) rows

\* C7 mutant: the delete of association rows has lost its where clause
DeleteEveryBlogPostTag(table, col, id) == EmptyBag

\* C9 mutant: the association rows are not deleted
DeleteNoBlogPostTag(table, col, id) == table

\* db.delete(blogPostTagsTable).where(eq(blogPostTagsTable.<col>, id))
DeleteBlogPostTagsWhere(table, col, id) ==
  [r \in {x \in DOMAIN table : x[col] # id} |-> table[r]]

\* rows of the bag that match eq(<col>, id), counted with multiplicity
CountBlogPostTagsWhere(table, col, id) ==
  BagCardinality([r \in {x \in DOMAIN table : x[col] = id} |-> table[r]])

\* C21 mutant: the slug columns have no unique index
SlugNeverTaken(table, slug, id) == FALSE

\* the unique index on blog_posts.slug: does writing this slug for row id clash
SlugTaken(table, slug, id) == \E r \in table : r.slug = slug /\ r.id # id

\* ---- the record of a handler call ----
Call(name, rows) == [call |-> name, rows |-> rows]

\* the tables as the handler found them (history, read by the properties only)
Store ==
  [categories |-> categories, tags |-> tags,
   blog_posts |-> blog_posts, blog_post_tags |-> blog_post_tags]

\* return value;
Returned(op, input, value, calls) ==
  [op |-> op, input |-> input, status |-> "returned", value |-> value,
   calls |-> calls, before |-> Store]

\* throw new Error(...), logged and rethrown by the handler's catch
Threw(op, input, error, calls) ==
  [op |-> op, input |-> input, status |-> "threw", value |-> error,
   calls |-> calls, before |-> Store]

\* the clients of the server: each awaits its call before it makes the next,
\* and the store calls of the calls of two clients interleave
Clients == {"c1", "c2", "c3"}

\* the clients whose calls race each other
Racing == {"c1", "c2"}

\* the client that makes a call again when a store call of it has failed; the
\* tables its call found at first are kept (history, read by the properties)
Retrying == {"c3"}

\* no tables kept
NotKept == [categories |-> {}, tags |-> {}, blog_posts |-> {}, blog_post_tags |-> EmptyBag]

\* a client that has made no call yet
NoCall == [op |-> "none", pc |-> "done", status |-> "none"]

\* the category and tag rows the handlers find at the start: row i as inserted
\* at tick 0
CategoryRow(i) ==
  [id |-> i, name |-> Titles[1], slug |-> Slugs[i], description |-> NULL,
   created_at |-> DefaultNow(0), updated_at |-> DefaultNow(0)]

TagRow(i) == [id |-> i, name |-> Titles[1], slug |-> Slugs[i], created_at |-> DefaultNow(0)]

Init ==
  /\ categories = {CategoryRow(i) : i \in 1..NumCategories}
  /\ tags = {TagRow(i) : i \in 1..NumTags}
  /\ blog_posts = {}
  /\ blog_post_tags = EmptyBag
  /\ blog_posts_id_seq = 0
  /\ now = 0
  /\ ret = [op |-> "none"]
  /\ categories_id_seq = NumCategories
  /\ tags_id_seq = NumTags
  /\ clients = [p \in Clients |-> NoCall]

\* ---- handlers ----
\* C19 mutant: the author is not copied into updateData
PostFieldsWithoutAuthor == {"title", "content", "slug", "excerpt", "published",
                            "publication_date", "category_id"}

\* the post columns an update input may carry (updateData, without updated_at)
PostFields == {"title", "content", "slug", "excerpt", "published",
               "publication_date", "category_id", "author"}

\* C24 mutant: the insert leaves the excerpt out
InsertedPostWithoutExcerpt(id, input, t) ==
  [id |-> id,
   title |-> input.title,
   content |-> input.content,
   slug |-> input.slug,
   excerpt |-> NULL,
   published |-> IF Has(input, "published") THEN input.published ELSE FALSE,
   publication_date |-> IF Has(input, "publication_date") THEN input.publication_date ELSE NULL,
   category_id |-> IF Has(input, "category_id") THEN input.category_id ELSE NULL,
   author |-> input.author,
   created_at |-> DefaultNow(t),
   updated_at |-> DefaultNow(t)]

\* the value a column gets on insert: the supplied one, else the column default
ValueOr(input, f, default) == IF Has(input, f) THEN input[f] ELSE default

\* the row db.insert(blogPostsTable).values({...}).returning() writes at tick t
InsertedPost(id, input, t) ==
  [id |-> id,
   title |-> input.title,
   content |-> input.content,
   slug |-> input.slug,
   excerpt |-> ValueOr(input, "excerpt", NULL),
   published |-> ValueOr(input, "published", FALSE),
   publication_date |-> ValueOr(input, "publication_date", NULL),
   category_id |-> ValueOr(input, "category_id", NULL),
   author |-> input.author,
   created_at |-> DefaultNow(t),
   updated_at |-> DefaultNow(t)]

createBlogPost(input) ==
  LET checkCategory == Truthy(input, "category_id")
      categoryExists == SelectWhereId(categories, input.category_id)
      checkTags == Has(input, "tag_ids") /\ Len(input.tag_ids) > 0
      existingTags == SelectWhereIdInArray(tags, input.tag_ids)
      existingTagIds == {tag.id : tag \in existingTags}
      missingTagIds == Filter(input.tag_ids, Range(input.tag_ids) \ existingTagIds)
      c1 == IF checkCategory
            THEN <<Call("select categories", Cardinality(categoryExists))>> ELSE <<>>
      c2 == c1 \o (IF checkTags
                   THEN <<Call("select tags", Cardinality(existingTags))>> ELSE <<>>)
      blogPost == InsertedPost(blog_posts_id_seq + 1, input, now)
      tagAssociations == TagRows(blogPost.id, input.tag_ids)
  IN
  IF checkCategory /\ categoryExists = {}
  THEN /\ ret' = Threw("createBlogPost", input,
                       [msg |-> "Category does not exist", id |-> input.category_id], c1)
       /\ UNCHANGED <<categories, tags, blog_posts, blog_post_tags, blog_posts_id_seq, now, categories_id_seq, tags_id_seq, clients>>
  ELSE IF checkTags /\ Cardinality(existingTags) # Len(input.tag_ids)
  THEN /\ ret' = Threw("createBlogPost", input,
                       [msg |-> "Tags do not exist", ids |-> missingTagIds], c2)
       /\ UNCHANGED <<categories, tags, blog_posts, blog_post_tags, blog_posts_id_seq, now, categories_id_seq, tags_id_seq, clients>>
  ELSE /\ blog_posts_id_seq < MaxPosts
       /\ blog_posts_id_seq' = blog_posts_id_seq + 1   \* nextval, drawn before the index check
       /\ IF SlugTaken(blog_posts, input.slug, blogPost.id)
          THEN /\ ret' = Threw("createBlogPost", input,
                               [msg |-> "duplicate key", constraint |-> "blog_posts_slug_unique"],
                               c2 \o <<Call("insert blog_posts", 0)>>)
               /\ UNCHANGED <<categories, tags, blog_posts, blog_post_tags, now, categories_id_seq, tags_id_seq, clients>>
          ELSE /\ blog_posts' = blog_posts \cup {blogPost}
               /\ IF checkTags
                  THEN /\ blog_post_tags' = InsertBlogPostTags(blog_post_tags, tagAssociations)
                       /\ ret' = Returned("createBlogPost", input, blogPost,
                                   c2 \o <<Call("insert blog_posts", 1),
                                           Call("insert blog_post_tags", Len(input.tag_ids))>>)
                  ELSE /\ UNCHANGED blog_post_tags
                       /\ ret' = Returned("createBlogPost", input, blogPost,
                                   c2 \o <<Call("insert blog_posts", 1)>>)
               /\ UNCHANGED <<categories, tags, now, categories_id_seq, tags_id_seq, clients>>

updateBlogPost(input) ==
  LET existingPost == SelectWhereId(blog_posts, input.id)
      c1 == <<Call("select blog_posts", Cardinality(existingPost))>>
      updateData == [updated_at |-> NewDate(now)]
                    @@ [f \in DOMAIN input \cap PostFields |-> input[f]]
      updated(row) == [f \in DOMAIN row |->
                         IF f \in DOMAIN updateData THEN updateData[f] ELSE row[f]]
      result == {updated(row) : row \in existingPost}
      c2 == c1 \o <<Call("update blog_posts", Cardinality(result))>>
      deleted == CountBlogPostTagsWhere(blog_post_tags, "blog_post_id", input.id)
      c3 == c2 \o <<Call("delete blog_post_tags", deleted)>>
      cleared == DeleteBlogPostTagsWhere(blog_post_tags, "blog_post_id", input.id)
      tagRelations == TagRows(input.id, input.tag_ids)
  IN
  IF existingPost = {}
  THEN /\ ret' = Threw("updateBlogPost", input,
                       [msg |-> "Blog post not found", id |-> input.id], c1)
       /\ UNCHANGED <<categories, tags, blog_posts, blog_post_tags, blog_posts_id_seq, now, categories_id_seq, tags_id_seq, clients>>
  ELSE IF Has(updateData, "slug") /\ SlugTaken(blog_posts, updateData.slug, input.id)
  THEN /\ ret' = Threw("updateBlogPost", input,
                       [msg |-> "duplicate key", constraint |-> "blog_posts_slug_unique"],
                       c1 \o <<Call("update blog_posts", 0)>>)
       /\ UNCHANGED <<categories, tags, blog_posts, blog_post_tags, blog_posts_id_seq, now, categories_id_seq, tags_id_seq, clients>>
  ELSE /\ blog_posts' = (blog_posts \ existingPost) \cup result
       /\ IF Has(input, "tag_ids")
          THEN IF Len(input.tag_ids) > 0
               THEN /\ blog_post_tags' = InsertBlogPostTags(cleared, tagRelations)
                    /\ ret' = Returned("updateBlogPost", input, CHOOSE r \in result : TRUE,
                                c3 \o <<Call("insert blog_post_tags", Len(input.tag_ids))>>)
               ELSE /\ blog_post_tags' = cleared
                    /\ ret' = Returned("updateBlogPost", input, CHOOSE r \in result : TRUE, c3)
          ELSE /\ UNCHANGED blog_post_tags
               /\ ret' = Returned("updateBlogPost", input, CHOOSE r \in result : TRUE, c2)
       /\ UNCHANGED <<categories, tags, blog_posts_id_seq, now, categories_id_seq, tags_id_seq, clients>>

deleteBlogPost(input) ==
  LET deleted == CountBlogPostTagsWhere(blog_post_tags, "blog_post_id", input.id)
      result == SelectWhereId(blog_posts, input.id)
  IN
  /\ blog_post_tags' = DeleteBlogPostTagsWhere(blog_post_tags, "blog_post_id", input.id)
  /\ blog_posts' = DeleteWhereId(blog_posts, input.id)
  /\ ret' = Returned("deleteBlogPost", input, [success |-> Cardinality(result) > 0],
                     <<Call("delete blog_post_tags", deleted),
                       Call("delete blog_posts", Cardinality(result))>>)
  /\ UNCHANGED <<categories, tags, blog_posts_id_seq, now, categories_id_seq, tags_id_seq, clients>>

\* C10 mutant: a missing tag is reported as success = false, as deleteBlogPost does
deleteTagNoThrow(input) ==
  LET deleted == CountBlogPostTagsWhere(blog_post_tags, "tag_id", input.id)
      result == SelectWhereId(tags, input.id)
  IN
  /\ blog_post_tags' = DeleteBlogPostTagsWhere(blog_post_tags, "tag_id", input.id)
  /\ tags' = DeleteWhereId(tags, input.id)
  /\ ret' = Returned("deleteTag", input, [success |-> Cardinality(result) > 0],
                     <<Call("delete blog_post_tags", deleted),
                       Call("delete tags", Cardinality(result))>>)
  /\ UNCHANGED <<categories, blog_posts, blog_posts_id_seq, now, categories_id_seq, tags_id_seq, clients>>

deleteTag(input) ==
  LET deleted == CountBlogPostTagsWhere(blog_post_tags, "tag_id", input.id)
      result == SelectWhereId(tags, input.id)
      calls == <<Call("delete blog_post_tags", deleted),
                 Call("delete tags", Cardinality(result))>>
  IN
  /\ blog_post_tags' = DeleteBlogPostTagsWhere(blog_post_tags, "tag_id", input.id)
  /\ tags' = DeleteWhereId(tags, input.id)
  /\ ret' = IF Cardinality(result) = 0
            THEN Threw("deleteTag", input, [msg |-> "Tag not found", id |-> input.id], calls)
            ELSE Returned("deleteTag", input, [success |-> TRUE], calls)
  /\ UNCHANGED <<categories, blog_posts, blog_posts_id_seq, now, categories_id_seq, tags_id_seq, clients>>

deleteCategory(input) ==
  LET rowCount == Cardinality(SelectWhereId(categories, input.id))
  IN
  /\ categories' = DeleteWhereId(categories, input.id)
  /\ ret' = Returned("deleteCategory", input, [success |-> rowCount > 0],
                     <<Call("delete categories", rowCount)>>)
  /\ UNCHANGED <<tags, blog_posts, blog_post_tags, blog_posts_id_seq, now, categories_id_seq, tags_id_seq, clients>>

\* createCategory: one insert into categories; the row gets the next id of the
\* serial, the supplied name, slug and description (null when absent) and the
\* database's time in both timestamps; the unique index on slug rejects a
\* slug another category has
createCategory(input) ==
  LET row == [id |-> categories_id_seq + 1, name |-> input.name, slug |-> input.slug,
              description |-> ValueOr(input, "description", NULL),
              created_at |-> DefaultNow(now), updated_at |-> DefaultNow(now)]
  IN
  /\ categories_id_seq < NumCategories + MaxNewRows
  /\ categories_id_seq' = categories_id_seq + 1
  /\ IF SlugTaken(categories, input.slug, row.id)
     THEN /\ ret' = Threw("createCategory", input,
                          [msg |-> "duplicate key", constraint |-> "categories_slug_unique"],
                          <<Call("insert categories", 0)>>)
          /\ UNCHANGED categories
     ELSE /\ categories' = categories \cup {row}
          /\ ret' = Returned("createCategory", input, row, <<Call("insert categories", 1)>>)
  /\ UNCHANGED <<tags, blog_posts, blog_post_tags, blog_posts_id_seq, now, tags_id_seq, clients>>

\* createTag: one insert into tags, as createCategory
createTag(input) ==
  LET row == [id |-> tags_id_seq + 1, name |-> input.name, slug |-> input.slug,
              created_at |-> DefaultNow(now)]
  IN
  /\ tags_id_seq < NumTags + MaxNewRows
  /\ tags_id_seq' = tags_id_seq + 1
  /\ IF SlugTaken(tags, input.slug, row.id)
     THEN /\ ret' = Threw("createTag", input,
                          [msg |-> "duplicate key", constraint |-> "tags_slug_unique"],
                          <<Call("insert tags", 0)>>)
          /\ UNCHANGED tags
     ELSE /\ tags' = tags \cup {row}
          /\ ret' = Returned("createTag", input, row, <<Call("insert tags", 1)>>)
  /\ UNCHANGED <<categories, blog_posts, blog_post_tags, blog_posts_id_seq, now,
                 categories_id_seq, clients>>

\* the category columns an update input may carry
CategoryFields == {"name", "slug", "description"}

updateCategory(input) ==
  LET updateData == [f \in DOMAIN input \cap CategoryFields |-> input[f]]
                    @@ [updated_at |-> NewDate(now)]
      matched == SelectWhereId(categories, input.id)
      updated(row) == [f \in DOMAIN row |->
                         IF f \in DOMAIN updateData THEN updateData[f] ELSE row[f]]
      result == {updated(row) : row \in matched}
      calls == <<Call("update categories", Cardinality(result))>>
  IN
  IF matched # {} /\ Has(input, "slug") /\ SlugTaken(categories, input.slug, input.id)
  THEN /\ ret' = Threw("updateCategory", input,
                       [msg |-> "duplicate key", constraint |-> "categories_slug_unique"],
                       <<Call("update categories", 0)>>)
       /\ UNCHANGED <<categories, tags, blog_posts, blog_post_tags, blog_posts_id_seq, now, categories_id_seq, tags_id_seq, clients>>
  ELSE /\ categories' = (categories \ matched) \cup result
       /\ ret' = IF Cardinality(result) = 0
                 THEN Threw("updateCategory", input,
                            [msg |-> "Category not found", id |-> input.id], calls)
                 ELSE Returned("updateCategory", input, CHOOSE r \in result : TRUE, calls)
       /\ UNCHANGED <<tags, blog_posts, blog_post_tags, blog_posts_id_seq, now, categories_id_seq, tags_id_seq, clients>>

\* the tag columns an update input may carry
TagFields == {"name", "slug"}

\* C18 mutant: the update of a tag that does not exist inserts the row
updateTagOrInsert(input) ==
  LET updateData == [f \in DOMAIN input \cap TagFields |-> input[f]]
      matched == SelectWhereId(tags, input.id)
      row == IF matched = {} THEN TagRow(input.id) ELSE CHOOSE r \in matched : TRUE
      result == [f \in DOMAIN row |->
                   IF f \in DOMAIN updateData THEN updateData[f] ELSE row[f]]
  IN
  /\ tags' = (tags \ matched) \cup {result}
  /\ ret' = Returned("updateTag", input, result, <<Call("update tags", 1)>>)
  /\ UNCHANGED <<categories, blog_posts, blog_post_tags, blog_posts_id_seq, now, categories_id_seq, tags_id_seq, clients>>

updateTag(input) ==
  LET updateData == [f \in DOMAIN input \cap TagFields |-> input[f]]
      existingRecord == SelectWhereId(tags, input.id)
      updated(row) == [f \in DOMAIN row |->
                         IF f \in DOMAIN updateData THEN updateData[f] ELSE row[f]]
      result == {updated(row) : row \in existingRecord}
      notFound == [msg |-> "Tag not found", id |-> input.id]
  IN
  IF DOMAIN updateData = {}
  THEN /\ ret' = IF Cardinality(existingRecord) = 0
                 THEN Threw("updateTag", input, notFound,
                            <<Call("select tags", 0)>>)
                 ELSE Returned("updateTag", input, CHOOSE r \in existingRecord : TRUE,
                               <<Call("select tags", Cardinality(existingRecord))>>)
       /\ UNCHANGED <<categories, tags, blog_posts, blog_post_tags, blog_posts_id_seq, now, categories_id_seq, tags_id_seq, clients>>
  ELSE IF existingRecord # {} /\ Has(input, "slug") /\ SlugTaken(tags, input.slug, input.id)
  THEN /\ ret' = Threw("updateTag", input,
                       [msg |-> "duplicate key", constraint |-> "tags_slug_unique"],
                       <<Call("update tags", 0)>>)
       /\ UNCHANGED <<categories, tags, blog_posts, blog_post_tags, blog_posts_id_seq, now, categories_id_seq, tags_id_seq, clients>>
  ELSE /\ tags' = (tags \ existingRecord) \cup result
       /\ ret' = IF Cardinality(result) = 0
                 THEN Threw("updateTag", input, notFound,
                            <<Call("update tags", 0)>>)
                 ELSE Returned("updateTag", input, CHOOSE r \in result : TRUE,
                               <<Call("update tags", Cardinality(result))>>)
       /\ UNCHANGED <<categories, blog_posts, blog_post_tags, blog_posts_id_seq, now, categories_id_seq, tags_id_seq, clients>>

\* ---- the handlers, one store call at a time ----
\* Each awaited db call is one statement of the database (the handlers open
\* no transaction), so the calls of two clients interleave between statements.

\* the tables and the serial a store call reads and writes
Db == Store @@ [blog_posts_id_seq |-> blog_posts_id_seq]

\* result[0] of an empty result array
Undefined == [undefined |-> TRUE]

\* one executed store call, as logged by the call that made it
Did(c, name, rows) ==
  [by |-> c.client, op |-> c.op, input |-> c.input, call |-> name, rows |-> rows]

\* the first store call a handler makes for this input
FirstCall(op, input) ==
  CASE op = "createBlogPost" ->
         IF Truthy(input, "category_id") THEN "select categories"
         ELSE IF Has(input, "tag_ids") /\ Len(input.tag_ids) > 0 THEN "select tags"
         ELSE "insert blog_posts"
    [] op = "updateBlogPost" -> "select blog_posts"
    [] op = "deleteBlogPost" -> "delete blog_post_tags"
    [] op = "deleteTag" -> "delete blog_post_tags"
    [] op = "deleteCategory" -> "delete categories"

\* a call a client has just made: nothing executed yet
NewCall(p, op, input, s) ==
  [client |-> p, op |-> op, input |-> input, pc |-> FirstCall(op, input),
   status |-> "running", value |-> Undefined, result |-> {}, calls |-> <<>>,
   raced |-> FALSE, before |-> IF p \in Retrying THEN s ELSE NotKept, attempts |-> 0,
   lost |-> 0, changed |-> FALSE]

\* the call goes on to its next store call
Await(c, db, name, rows, pc) ==
  [call |-> [c EXCEPT !.pc = pc, !.calls = @ \o <<Did(c, name, rows)>>], db |-> db]

\* return value; after the store call name
Return(c, db, name, rows, value) ==
  [call |-> [c EXCEPT !.pc = "done", !.status = "returned", !.value = value,
                      !.calls = @ \o <<Did(c, name, rows)>>],
   db |-> db]

\* throw new Error(...) after the store call name, or the store call throws
Throw(c, db, name, rows, error) ==
  [call |-> [c EXCEPT !.pc = "done", !.status = "threw", !.value = error,
                      !.calls = @ \o <<Did(c, name, rows)>>],
   db |-> db]

createBlogPostStep(c, db, t) ==
  LET input == c.input
      checkTags == Has(input, "tag_ids") /\ Len(input.tag_ids) > 0
      categoryExists == SelectWhereId(db.categories, input.category_id)
      existingTags == SelectWhereIdInArray(db.tags, input.tag_ids)
      existingTagIds == {tag.id : tag \in existingTags}
      missingTagIds == Filter(input.tag_ids, Range(input.tag_ids) \ existingTagIds)
      blogPost == InsertedPost(db.blog_posts_id_seq + 1, input, t)
      drawn == [db EXCEPT !.blog_posts_id_seq = @ + 1]
      inserted == CHOOSE r \in c.result : TRUE
  IN
  CASE c.pc = "select categories" ->
         IF categoryExists = {}
         THEN Throw(c, db, c.pc, 0,
                    [msg |-> "Category does not exist", id |-> input.category_id])
         ELSE Await(c, db, c.pc, Cardinality(categoryExists),
                    IF checkTags THEN "select tags" ELSE "insert blog_posts")
    [] c.pc = "select tags" ->
         IF Cardinality(existingTags) # Len(input.tag_ids)
         THEN Throw(c, db, c.pc, Cardinality(existingTags),
                    [msg |-> "Tags do not exist", ids |-> missingTagIds])
         ELSE Await(c, db, c.pc, Cardinality(existingTags), "insert blog_posts")
    [] c.pc = "insert blog_posts" ->
         IF SlugTaken(db.blog_posts, input.slug, blogPost.id)
         THEN Throw(c, drawn, c.pc, 0,
                    [msg |-> "duplicate key", constraint |-> "blog_posts_slug_unique"])
         ELSE LET written == [drawn EXCEPT !.blog_posts = @ \cup {blogPost}]
                  kept == [c EXCEPT !.result = {blogPost}]
              IN  IF checkTags
                  THEN Await(kept, written, c.pc, 1, "insert blog_post_tags")
                  ELSE Return(kept, written, c.pc, 1, blogPost)
    [] c.pc = "insert blog_post_tags" ->
         Return(c, [db EXCEPT !.blog_post_tags =
                                 InsertBlogPostTags(@, TagRows(inserted.id, input.tag_ids))],
                c.pc, Len(input.tag_ids), inserted)

updateBlogPostStep(c, db, t) ==
  LET input == c.input
      existingPost == SelectWhereId(db.blog_posts, input.id)
      updateData == [updated_at |-> NewDate(t)]
                    @@ [f \in DOMAIN input \cap PostFields |-> input[f]]
      updated(row) == [f \in DOMAIN row |->
                         IF f \in DOMAIN updateData THEN updateData[f] ELSE row[f]]
      result == {updated(row) : row \in existingPost}
      first == IF c.result = {} THEN Undefined ELSE CHOOSE r \in c.result : TRUE
      deleted == CountBlogPostTagsWhere(db.blog_post_tags, "blog_post_id", input.id)
  IN
  CASE c.pc = "select blog_posts" ->
         IF existingPost = {}
         THEN Throw(c, db, c.pc, 0, [msg |-> "Blog post not found", id |-> input.id])
         ELSE Await(c, db, c.pc, Cardinality(existingPost), "update blog_posts")
    [] c.pc = "update blog_posts" ->
         IF existingPost # {} /\ Has(updateData, "slug")
            /\ SlugTaken(db.blog_posts, updateData.slug, input.id)
         THEN Throw(c, db, c.pc, 0,
                    [msg |-> "duplicate key", constraint |-> "blog_posts_slug_unique"])
         ELSE LET written == [db EXCEPT !.blog_posts = (@ \ existingPost) \cup result]
                  kept == [c EXCEPT !.result = result]
              IN  IF Has(input, "tag_ids")
                  THEN Await(kept, written, c.pc, Cardinality(result), "delete blog_post_tags")
                  ELSE Return(kept, written, c.pc, Cardinality(result),
                              IF result = {} THEN Undefined ELSE CHOOSE r \in result : TRUE)
    [] c.pc = "delete blog_post_tags" ->
         LET cleared == [db EXCEPT !.blog_post_tags =
                                      DeleteBlogPostTagsWhere(@, "blog_post_id", input.id)]
         IN  IF Len(input.tag_ids) > 0
             THEN Await(c, cleared, c.pc, deleted, "insert blog_post_tags")
             ELSE Return(c, cleared, c.pc, deleted, first)
    [] c.pc = "insert blog_post_tags" ->
         Return(c, [db EXCEPT !.blog_post_tags =
                                 InsertBlogPostTags(@, TagRows(input.id, input.tag_ids))],
                c.pc, Len(input.tag_ids), first)

deleteBlogPostStep(c, db, t) ==
  LET input == c.input
      deleted == CountBlogPostTagsWhere(db.blog_post_tags, "blog_post_id", input.id)
      result == SelectWhereId(db.blog_posts, input.id)
  IN
  CASE c.pc = "delete blog_post_tags" ->
         Await(c, [db EXCEPT !.blog_post_tags =
                                DeleteBlogPostTagsWhere(@, "blog_post_id", input.id)],
               c.pc, deleted, "delete blog_posts")
    [] c.pc = "delete blog_posts" ->
         Return(c, [db EXCEPT !.blog_posts = DeleteWhereId(@, input.id)],
                c.pc, Cardinality(result), [success |-> Cardinality(result) > 0])

deleteTagStep(c, db, t) ==
  LET input == c.input
      deleted == CountBlogPostTagsWhere(db.blog_post_tags, "tag_id", input.id)
      result == SelectWhereId(db.tags, input.id)
      gone == [db EXCEPT !.tags = DeleteWhereId(@, input.id)]
  IN
  CASE c.pc = "delete blog_post_tags" ->
         Await(c, [db EXCEPT !.blog_post_tags =
                                DeleteBlogPostTagsWhere(@, "tag_id", input.id)],
               c.pc, deleted, "delete tags")
    [] c.pc = "delete tags" ->
         IF Cardinality(result) = 0
         THEN Throw(c, gone, c.pc, 0, [msg |-> "Tag not found", id |-> input.id])
         ELSE Return(c, gone, c.pc, Cardinality(result), [success |-> TRUE])

deleteCategoryStep(c, db, t) ==
  LET rowCount == Cardinality(SelectWhereId(db.categories, c.input.id))
  IN  Return(c, [db EXCEPT !.categories = DeleteWhereId(@, c.input.id)],
             c.pc, rowCount, [success |-> rowCount > 0])

\* the next store call of call c against the tables db at tick t: the call as
\* it goes on, and the tables as the store call leaves them
StoreCall(c, db, t) ==
  CASE c.op = "createBlogPost" -> createBlogPostStep(c, db, t)
    [] c.op = "updateBlogPost" -> updateBlogPostStep(c, db, t)
    [] c.op = "deleteBlogPost" -> deleteBlogPostStep(c, db, t)
    [] c.op = "deleteTag" -> deleteTagStep(c, db, t)
    [] c.op = "deleteCategory" -> deleteCategoryStep(c, db, t)

\* the handler run from call c to its end with no other call in between
RECURSIVE Uninterrupted(_, _, _)
Uninterrupted(c, db, t) ==
  IF c.pc = "done" THEN [call |-> c, db |-> db]
  ELSE LET r == StoreCall(c, db, t) IN Uninterrupted(r.call, r.db, t)

\* the four tables of db
TablesOf(db) == [f \in DOMAIN Store |-> db[f]]

\* client p calls a handler
Begin(p, op, input) ==
  /\ clients[p] = NoCall
  /\ clients' = [clients EXCEPT ![p] = NewCall(p, op, input, Store)]
  /\ UNCHANGED <<categories, tags, blog_posts, blog_post_tags, blog_posts_id_seq, now,
                 ret, categories_id_seq, tags_id_seq>>

\* the outcome of a call that has ended, as handed back to its client
Outcome(c) ==
  [op |-> c.op, input |-> c.input, status |-> c.status, value |-> c.value,
   calls |-> c.calls, raced |-> c.raced, before |-> c.before, client |-> c.client,
   attempts |-> c.attempts, lost |-> c.lost, changed |-> c.changed]

\* the database executes the next store call of client p's call; the calls in
\* flight of the other clients have raced it (history); a call that has made
\* its last store call ends
Step(p) ==
  LET c == clients[p]
      r == StoreCall(c, Db, now)
      after == [r.call EXCEPT !.changed = @ \/ (TablesOf(r.db) # Store)]
  IN
  /\ c.pc # "done"
  /\ c.pc = "insert blog_posts" => blog_posts_id_seq < MaxPosts
  /\ categories' = r.db.categories
  /\ tags' = r.db.tags
  /\ blog_posts' = r.db.blog_posts
  /\ blog_post_tags' = r.db.blog_post_tags
  /\ blog_posts_id_seq' = r.db.blog_posts_id_seq
  /\ clients' = [q \in Clients |->
                   IF q = p THEN (IF after.pc = "done" THEN NoCall ELSE after)
                   ELSE IF clients[q].pc # "done"
                        THEN [clients[q] EXCEPT !.raced = TRUE]
                        ELSE clients[q]]
  /\ ret' = IF after.pc = "done" THEN Outcome(after) ELSE ret
  /\ UNCHANGED <<now, categories_id_seq, tags_id_seq>>

\* the store call client p's call awaits fails (the connection is lost, the
\* statement times out): it changes nothing, and the handler's catch rethrows
Fail(p) ==
  /\ clients[p].pc # "done"
  /\ clients[p].attempts < MaxRetries
  /\ clients' = [clients EXCEPT ![p].pc = "done", ![p].status = "failed",
                                ![p].value = [msg |-> "store failure"]]
  /\ UNCHANGED <<categories, tags, blog_posts, blog_post_tags, blog_posts_id_seq, now,
                 ret, categories_id_seq, tags_id_seq>>

\* C23 mutant: the client takes the failed call for done
RetryNothing(p) ==
  /\ clients[p].status = "failed"
  /\ clients' = [clients EXCEPT ![p] = NoCall]
  /\ ret' = Outcome([clients[p] EXCEPT !.status = "returned",
                                       !.attempts = @ + 1, !.lost = Len(clients[p].calls)])
  /\ UNCHANGED <<categories, tags, blog_posts, blog_post_tags, blog_posts_id_seq, now,
                 categories_id_seq, tags_id_seq>>

\* client p makes the call that failed once more, from its first store call;
\* lost counts the store calls the failed attempts had made (history)
Retry(p) ==
  /\ clients[p].status = "failed"
  /\ clients' = [clients EXCEPT ![p] =
                   [NewCall(p, clients[p].op, clients[p].input, Store)
                      EXCEPT !.before = clients[p].before,
                             !.attempts = clients[p].attempts + 1,
                             !.lost = clients[p].lost + Len(clients[p].calls)]]
  /\ ret' = ret
  /\ UNCHANGED <<categories, tags, blog_posts, blog_post_tags, blog_posts_id_seq, now,
                 categories_id_seq, tags_id_seq>>

\* ---- the read handlers ----
\* the rows of blog_post_tags, one for each copy of a (blog_post_id, tag_id) pair
BlogPostTagRows(table) ==
  UNION {{[blog_post_id |-> r.blog_post_id, tag_id |-> r.tag_id, copy |-> k] :
            k \in 1..table[r]} : r \in DOMAIN table}

\* the columns of a joined table in a row that found no partner
NullRow == [id |-> NULL]

\* the join condition eq(<from>.<col>, <joined table>.<key>) for row r and
\* partner t; a null (here: a column of a NullRow) equals nothing
On(r, from, col, t, key) == Has(r[from], col) /\ r[from][col] = t[key]

\* C11 mutant: the join drops the rows that find no partner
LeftJoinMatchedOnly(rows, table, name, from, col, key) ==
  UNION {{r @@ [x \in {name} |-> t] : t \in {t \in table : On(r, from, col, t, key)}} :
           r \in rows}

\* .leftJoin(table, on): every row, with each partner or with nulls
LeftJoin(rows, table, name, from, col, key) ==
  UNION {LET partners == {t \in table : On(r, from, col, t, key)}
         IN  {r @@ [x \in {name} |-> t] :
                t \in IF partners = {} THEN {NullRow} ELSE partners} : r \in rows}

\* .innerJoin(table, on): every pair of a row and a partner
InnerJoin(rows, table, name, from, col, key) ==
  UNION {{r @@ [x \in {name} |-> t] : t \in {t \in table : On(r, from, col, t, key)}} :
           r \in rows}

\* db.select().from(blogPostsTable)
FromBlogPosts(posts) == {[blog_posts |-> p] : p \in posts}

\* C13 mutant: the two search conditions are combined with and
SearchConditionsAnd(input, post) ==
  /\ Has(input, "id") => post.id = input.id
  /\ Has(input, "slug") => post.slug = input.slug

\* the search conditions of getBlogPost: id, slug, or either of the two
SearchConditions(input, post) ==
  IF Has(input, "id") /\ Has(input, "slug")
  THEN post.id = input.id \/ post.slug = input.slug
  ELSE IF Has(input, "id") THEN post.id = input.id
  ELSE IF Has(input, "slug") THEN post.slug = input.slug
  ELSE TRUE

\* C12 mutant: the published condition is dropped
PublishedOrNot(post) == TRUE

\* eq(blogPostsTable.published, true)
PublishedOnly(post) == post.published = TRUE

\* a null BlogPost
NullPost == [null |-> TRUE]

\* the rows getBlogPost's query yields
GetBlogPostResults(s, input) ==
  LET withCategory == LeftJoin(FromBlogPosts(s.blog_posts), s.categories, "categories",
                               "blog_posts", "category_id", "id")
      withRows == LeftJoin(withCategory, BlogPostTagRows(s.blog_post_tags), "blog_post_tags",
                           "blog_posts", "id", "blog_post_id")
      withTags == LeftJoin(withRows, s.tags, "tags",
                           "blog_post_tags", "tag_id", "id")
  IN  {r \in withTags : SearchConditions(input, r.blog_posts) /\ PublishedOnly(r.blog_posts)}

\* the tags getBlogPost collects from the rows, without duplicates (they are
\* not part of what it returns)
UniqueTags(results) == {r.tags.id : r \in {x \in results : x.tags.id # NULL}}

\* what getBlogPost may return: null, or the post of results[0]; the query has
\* no order by, so any row may come first
GetBlogPostOutcomes(s, input) ==
  LET results == GetBlogPostResults(s, input)
  IN  IF results = {} THEN {NullPost} ELSE {r.blog_posts : r \in results}

getBlogPost(input) ==
  /\ \E blogPost \in GetBlogPostOutcomes(Store, input) :
       ret' = Returned("getBlogPost", input, blogPost,
                       <<Call("select blog_posts", Cardinality(GetBlogPostResults(Store, input)))>>)
  /\ UNCHANGED <<categories, tags, blog_posts, blog_post_tags, blog_posts_id_seq, now, categories_id_seq, tags_id_seq, clients>>

\* getBlogPosts takes an optional input: args is <<>> or <<input>>
HasInput(args) == Len(args) > 0

DefaultLimit == 50
DefaultOffset == 0

NeedsTagJoin(args) == HasInput(args) /\ Has(args[1], "tag_id")

\* the where clause of getBlogPosts
ListConditions(args, r) ==
  HasInput(args) =>
    /\ Has(args[1], "published") => r.blog_posts.published = args[1].published
    /\ Has(args[1], "category_id") => r.blog_posts.category_id = args[1].category_id
    /\ Has(args[1], "tag_id") => r.blog_post_tags.tag_id = args[1].tag_id

\* the rows getBlogPosts selects, before order and page
ListRows(s, args) ==
  LET from == IF NeedsTagJoin(args)
              THEN InnerJoin(FromBlogPosts(s.blog_posts), BlogPostTagRows(s.blog_post_tags),
                             "blog_post_tags", "blog_posts", "id", "blog_post_id")
              ELSE FromBlogPosts(s.blog_posts)
  IN  {r \in from : ListConditions(args, r)}

\* every sequence that holds each element of the set once
RECURSIVE Orderings(_)
Orderings(S) ==
  IF S = {} THEN {<<>>}
  ELSE UNION {{<<x>> \o p : p \in Orderings(S \ {x})} : x \in S}

\* .orderBy(desc(blogPostsTable.created_at)): the orders the database may
\* deliver, rows of one created_at in any order
RECURSIVE OrderByCreatedAtDesc(_)
OrderByCreatedAtDesc(rows) ==
  IF rows = {} THEN {<<>>}
  ELSE LET newest == CHOOSE r \in rows :
                       \A q \in rows : q.blog_posts.created_at <= r.blog_posts.created_at
           first == {r \in rows : r.blog_posts.created_at = newest.blog_posts.created_at}
       IN  {p \o rest : p \in Orderings(first),
                        rest \in OrderByCreatedAtDesc(rows \ first)}

Min(a, b) == IF a < b THEN a ELSE b

\* .limit(limit).offset(offset), applied if (input)
LimitOffset(ordered, args) ==
  IF HasInput(args)
  THEN LET limit == ValueOr(args[1], "limit", DefaultLimit)
           offset == ValueOr(args[1], "offset", DefaultOffset)
       IN  SubSeq(ordered, offset + 1, Min(Len(ordered), offset + limit))
  ELSE ordered

\* results.map(result => result.blog_posts)
BlogPostData(results) == [i \in DOMAIN results |-> results[i].blog_posts]

\* what getBlogPosts may return
GetBlogPostsOutcomes(s, args) ==
  {BlogPostData(LimitOffset(ordered, args)) : ordered \in OrderByCreatedAtDesc(ListRows(s, args))}

getBlogPosts(args) ==
  /\ \E results \in GetBlogPostsOutcomes(Store, args) :
       ret' = Returned("getBlogPosts", args, results,
                       <<Call("select blog_posts", Len(results))>>)
  /\ UNCHANGED <<categories, tags, blog_posts, blog_post_tags, blog_posts_id_seq, now, categories_id_seq, tags_id_seq, clients>>

\* ---- time passes ----
Tick ==
  /\ now < MaxClock
  /\ now' = now + 1
  /\ UNCHANGED <<categories, tags, blog_posts, blog_post_tags, blog_posts_id_seq, ret, categories_id_seq, tags_id_seq, clients>>

\* ---- inputs ----
\* the tag_ids lists: every list over the tag ids, up to MaxTagIds long
TagIdLists == UNION {[1..n -> 1..NumTags] : n \in 0..MaxTagIds}

\* an optional field: absent, or present with one of the values
Optional(f, values) == {<<>>} \cup {[x \in {f} |-> v] : v \in values}

\* the required fields of a createBlogPost input, with one title, content and author
CreateFields(slugs, publisheds, category_ids) ==
  [title : {Titles[1]}, content : {Contents[1]}, author : {Authors[1]},
   slug : slugs, published : publisheds, category_id : category_ids]

\* createBlogPost is given a category_id (null, 0 or an id) and maybe tag_ids
CreateBlogPostInputs ==
  {base @@ t :
     base \in CreateFields({Slugs[1], Slugs[2]}, {TRUE}, {NULL} \cup (0..NumCategories)),
     t \in Optional("tag_ids", TagIdLists)}

\* updateBlogPost is given the id and maybe a category_id, maybe tag_ids
UpdateBlogPostInputs ==
  {base @@ c @@ t :
     base \in [id : 1..MaxPosts],
     c \in Optional("category_id", {NULL} \cup (1..NumCategories)),
     t \in Optional("tag_ids", TagIdLists)}

DeleteItemInputs(n) == [id : 1..n]

\* the RPC layer serves one request at a time: it calls the handler with the
\* parsed input and hands the outcome back to the caller
\* C28 mutant: the caller's published value survives the spread
CallerPublishedWins(args) ==
  <<(IF HasInput(args) THEN args[1] ELSE <<>>) @@ [published |-> TRUE]>>

\* { ...input, published: true }: the object the published route hands to
\* getBlogPosts, an object even when the caller sent no input
ForcePublished(args) ==
  <<[published |-> TRUE] @@ (IF HasInput(args) THEN args[1] ELSE <<>>)>>

\* the route getPublishedBlogPosts
getPublishedBlogPosts(args) ==
  /\ \E results \in GetBlogPostsOutcomes(Store, ForcePublished(args)) :
       ret' = Returned("getPublishedBlogPosts", args, results,
                       <<Call("select blog_posts", Len(results))>>)
  /\ UNCHANGED <<categories, tags, blog_posts, blog_post_tags, blog_posts_id_seq, now, categories_id_seq, tags_id_seq, clients>>

Idle == ret.op = "none"

Respond ==
  /\ ~Idle
  /\ ret' = [op |-> "none"]
  /\ UNCHANGED <<categories, tags, blog_posts, blog_post_tags, blog_posts_id_seq, now, categories_id_seq, tags_id_seq, clients>>

Next ==
  \/ Idle /\ \E input \in CreateBlogPostInputs : createBlogPost(input)
  \/ Idle /\ \E input \in UpdateBlogPostInputs : updateBlogPost(input)
  \/ Idle /\ \E input \in DeleteItemInputs(MaxPosts) : deleteBlogPost(input)
  \/ Idle /\ \E input \in DeleteItemInputs(NumTags + 1) : deleteTag(input)
  \/ Idle /\ \E input \in DeleteItemInputs(NumCategories + 1) : deleteCategory(input)
  \/ Respond

Spec == Init /\ [][Next]_vars

\* ---- the association rows alone ----
\* The handlers under inputs that leave the category columns alone: posts are
\* created uncategorised with at most one tag, and updates carry at most
\* tag_ids (every list).
TagCreateInputs ==
  {base @@ t :
     base \in CreateFields({Slugs[1], Slugs[2]}, {TRUE}, {NULL}),
     t \in Optional("tag_ids", {ids \in TagIdLists : Len(ids) <= 1})}

TagUpdateInputs ==
  {base @@ t : base \in [id : 1..MaxPosts], t \in Optional("tag_ids", TagIdLists)}

NextTags ==
  \/ Idle /\ \E input \in TagCreateInputs : createBlogPost(input)
  \/ Idle /\ \E input \in TagUpdateInputs : updateBlogPost(input)
  \/ Idle /\ \E input \in DeleteItemInputs(MaxPosts) : deleteBlogPost(input)
  \/ Idle /\ \E input \in DeleteItemInputs(NumTags + 1) : deleteTag(input)
  \/ Respond

SpecTags == Init /\ [][NextTags]_vars

\* ---- reference validation and deletes ----
\* Creates of posts that all ask for the same slug (so one post exists at a
\* time), with every category_id and tag_ids, between deletes of posts, tags
\* and categories.
RefCreateInputs ==
  {base @@ t :
     base \in CreateFields({Slugs[1]}, {TRUE}, {NULL} \cup (0..NumCategories)),
     t \in Optional("tag_ids", TagIdLists)}

NextRefs ==
  \/ Idle /\ \E input \in RefCreateInputs : createBlogPost(input)
  \/ Idle /\ \E input \in DeleteItemInputs(MaxPosts) : deleteBlogPost(input)
  \/ Idle /\ \E input \in DeleteItemInputs(NumTags + 1) : deleteTag(input)
  \/ Idle /\ \E input \in DeleteItemInputs(NumCategories + 1) : deleteCategory(input)
  \/ Respond

SpecRefs == Init /\ [][NextRefs]_vars

\* ---- reading posts ----
\* Posts of either published flag, with or without a category and tags, the
\* delete of categories, and the two read handlers.
GetCreateInputs ==
  {base @@ t :
     base \in CreateFields({Slugs[1], Slugs[2]}, BOOLEAN, {NULL} \cup (1..NumCategories)),
     t \in Optional("tag_ids", {<<1>>, <<1, 2>>})}

\* getBlogPost is given an id, a slug or both
GetBlogPostInputs ==
  {i @@ g : i \in Optional("id", 1..MaxPosts),
            g \in Optional("slug", {Slugs[1], Slugs[2], Slugs[3]})} \ {<<>>}

\* getBlogPosts is given nothing, an empty filter or a category_id
GetListArgs ==
  {<<>>} \cup {<<c>> : c \in Optional("category_id", 1..NumCategories)}

NextGet ==
  \/ Idle /\ \E input \in GetCreateInputs : createBlogPost(input)
  \/ Idle /\ \E input \in DeleteItemInputs(NumCategories) : deleteCategory(input)
  \/ Idle /\ \E input \in GetBlogPostInputs : getBlogPost(input)
  \/ Idle /\ \E args \in GetListArgs : getBlogPosts(args)
  \/ Respond

SpecGet == Init /\ [][NextGet]_vars

\* ---- listing posts ----
\* Posts created at the same or at different ticks, their tag_ids rewritten by
\* updates (lists over tag 1, also the repeated one), and getBlogPosts under
\* every combination of its filters with small pages.
ListCreateInputs ==
  CreateFields({Slugs[1], Slugs[2]}, BOOLEAN, {NULL} \cup (1..NumCategories))

ListUpdateInputs ==
  {base @@ t : base \in [id : 1..MaxPosts],
               t \in [tag_ids : {ids \in TagIdLists : Range(ids) \subseteq {1}}]}

ListArgs ==
  {<<>>} \cup
  {<<p @@ c @@ t @@ l @@ o>> :
     p \in Optional("published", BOOLEAN),
     c \in Optional("category_id", 1..NumCategories),
     t \in Optional("tag_id", {1}),
     l \in Optional("limit", {1, 2}),
     o \in Optional("offset", {1})}

NextList ==
  \/ Idle /\ \E input \in ListCreateInputs : createBlogPost(input)
  \/ Idle /\ \E input \in ListUpdateInputs : updateBlogPost(input)
  \/ Idle /\ \E args \in ListArgs : getBlogPosts(args)
  \/ Idle /\ Tick
  \/ Respond

SpecList == Init /\ [][NextList]_vars

\* ---- the three updates ----
\* One post with or without a tag, and updates of posts, categories and tags
\* by ids that exist and ids that do not, while time passes.
UpdateCreateInputs ==
  {base @@ t : base \in CreateFields({Slugs[1]}, {TRUE}, {NULL}),
               t \in Optional("tag_ids", {<<1>>})}

UpdatePostInputs ==
  {base @@ f @@ t : base \in [id : 1..MaxPosts],
                    f \in Optional("title", {Titles[2]}),
                    t \in Optional("tag_ids", {<<>>, <<2>>})}

UpdateCategoryInputs ==
  {base @@ n : base \in [id : 1..(NumCategories + 1)],
               n \in Optional("name", {Titles[2]})}

UpdateTagInputs ==
  {base @@ n : base \in [id : 1..(NumTags + 1)], n \in Optional("name", {Titles[2]})}

NextUpdate ==
  \/ Idle /\ \E input \in UpdateCreateInputs : createBlogPost(input)
  \/ Idle /\ \E input \in UpdatePostInputs : updateBlogPost(input)
  \/ Idle /\ \E input \in UpdateCategoryInputs : updateCategory(input)
  \/ Idle /\ \E input \in UpdateTagInputs : updateTag(input)
  \/ Idle /\ Tick
  \/ Respond

SpecUpdate == Init /\ [][NextUpdate]_vars

\* ---- the slugs ----
\* Creates and updates of categories, tags and posts that carry slugs, free
\* ones and taken ones.  A category or a tag is written by one store call;
\* the store calls of two clients' post calls interleave with them.  The
\* updates of categories and tags ask for the slug of the first row; the
\* updates of posts ask for it too, as long as no post has it with success.
SlugCategoryInputs == [name : {Titles[1]}, slug : {Slugs[1], Slugs[NumCategories + 1]}]

SlugTagInputs == [name : {Titles[1]}, slug : {Slugs[1], Slugs[NumTags + 1]}]

SlugPostInputs ==
  {base @@ [tag_ids |-> <<1>>] : base \in CreateFields({Slugs[1], Slugs[2]}, {TRUE}, {NULL})}

SlugUpdatePostInputs == [id : 1..MaxPosts, slug : {Slugs[1]}, tag_ids : {<<1>>}]

SlugUpdateCategoryInputs == [id : {NumCategories + 1}, slug : {Slugs[1]}]

SlugUpdateTagInputs == [id : {NumTags + 1}, slug : {Slugs[1]}]

NextSlugs ==
  \/ Idle /\ \E input \in SlugCategoryInputs : createCategory(input)
  \/ Idle /\ \E input \in SlugTagInputs : createTag(input)
  \/ Idle /\ \E input \in SlugUpdateCategoryInputs : updateCategory(input)
  \/ Idle /\ \E input \in SlugUpdateTagInputs : updateTag(input)
  \/ Idle /\ \E p \in Racing, input \in SlugPostInputs : Begin(p, "createBlogPost", input)
  \/ Idle /\ \E p \in Racing, input \in SlugUpdatePostInputs : Begin(p, "updateBlogPost", input)
  \/ Idle /\ \E p \in Racing : Step(p)
  \/ Respond

SpecSlugs == Init /\ [][NextSlugs]_vars

\* ---- createBlogPost against deleteTag ----
\* Two clients create posts with tags and delete tags; the store calls of
\* their calls interleave.
RaceCreateInputs ==
  {base @@ t : base \in CreateFields({Slugs[1], Slugs[2]}, {TRUE}, {NULL}),
               t \in [tag_ids : {<<1>>, <<1, 2>>}]}

NextRace ==
  \/ Idle /\ \E p \in Racing, input \in RaceCreateInputs : Begin(p, "createBlogPost", input)
  \/ Idle /\ \E p \in Racing, input \in DeleteItemInputs(NumTags) : Begin(p, "deleteTag", input)
  \/ Idle /\ \E p \in Racing : Step(p)
  \/ Respond

SpecRace == Init /\ [][NextRace]_vars

\* ---- store failures ----
\* One client creates, updates and deletes, one call after the other; a store
\* call of an update or a delete may fail, and the client then makes the call
\* again.  Time passes while an update or a delete is under way.  The updates
\* and deletes are those of the first post, the first tag (or a tag that never
\* was) and the last category.
RetryCreateInputs ==
  {base @@ [tag_ids |-> <<1>>] : base \in CreateFields({Slugs[1], Slugs[2]}, {TRUE}, {NULL})}

RetryUpdateInputs ==
  {base @@ f @@ t : base \in [id : {1}],
                    f \in Optional("slug", {Slugs[2]}),
                    t \in Optional("tag_ids", {<<>>, <<NumTags, NumTags + 1>>})}

\* no client has a call in flight or to make again
NoneInFlight == \A p \in Clients : clients[p] = NoCall

NextRetry ==
  \/ Idle /\ NoneInFlight /\ \E input \in RetryCreateInputs : createBlogPost(input)
  \/ Idle /\ \E p \in Retrying, input \in RetryUpdateInputs : Begin(p, "updateBlogPost", input)
  \/ Idle /\ \E p \in Retrying, input \in [id : {1}] : Begin(p, "deleteBlogPost", input)
  \/ Idle /\ \E p \in Retrying, input \in [id : {1, NumTags + 1}] : Begin(p, "deleteTag", input)
  \/ Idle /\ \E p \in Retrying, input \in [id : {NumCategories}] :
               Begin(p, "deleteCategory", input)
  \/ Idle /\ \E p \in Retrying : Step(p)
  \/ Idle /\ \E p \in Retrying : Fail(p)
  \/ Idle /\ \E p \in Retrying : Retry(p)
  \/ Idle /\ ~NoneInFlight /\ Tick
  \/ Respond

SpecRetry == Init /\ [][NextRetry]_vars

\* ---- create, then get ----
\* Posts of either published flag, with or without excerpt, publication date,
\* category and tags, and getBlogPost by slug right after a create or later.
RoundTripCreateInputs ==
  {base @@ e @@ d @@ t :
     base \in CreateFields({Slugs[1], Slugs[2]}, BOOLEAN, {NULL, NumCategories}),
     e \in Optional("excerpt", {1}),
     d \in Optional("publication_date", {TicksPerMilli}),
     t \in Optional("tag_ids", {<<1>>})}

RoundTripGetInputs == [slug : {Slugs[1], Slugs[2], Slugs[3]}]

NextRoundTrip ==
  \/ Idle /\ \E input \in RoundTripCreateInputs : createBlogPost(input)
  \/ \E input \in RoundTripGetInputs : getBlogPost(input)
  \/ Respond

SpecRoundTrip == Init /\ [][NextRoundTrip]_vars

\* ---- the columns of one post ----
\* updateBlogPost as a function of the stored row and the input: the store
\* holds one post, as createBlogPost wrote it at tick 0, and every input that
\* carries any subset of the eight columns is applied to it, again and again.
FieldCreateInputs ==
  {base @@ e : base \in CreateFields({Slugs[1]}, {FALSE}, {NULL}),
               e \in Optional("excerpt", {1})}

InitFields ==
  /\ categories = {CategoryRow(i) : i \in 1..NumCategories}
  /\ tags = {TagRow(i) : i \in 1..NumTags}
  /\ \E input \in FieldCreateInputs : blog_posts = {InsertedPost(1, input, 0)}
  /\ blog_post_tags = EmptyBag
  /\ blog_posts_id_seq = 1
  /\ now = 0
  /\ ret = [op |-> "none"]
  /\ categories_id_seq = NumCategories
  /\ tags_id_seq = NumTags
  /\ clients = [p \in Clients |-> NoCall]

FieldUpdateInputs ==
  {base @@ t @@ c @@ s @@ e @@ p @@ d @@ g @@ a :
     base \in [id : {1}],
     t \in Optional("title", {Titles[2]}),
     c \in Optional("content", {Contents[2]}),
     s \in Optional("slug", {Slugs[2]}),
     e \in Optional("excerpt", {NULL, 1}),
     p \in Optional("published", {TRUE}),
     d \in Optional("publication_date", {NULL, 0}),
     g \in Optional("category_id", {NULL, 1}),
     a \in Optional("author", {Authors[2]})}

NextFields ==
  \/ Idle /\ \E input \in FieldUpdateInputs : updateBlogPost(input)
  \/ Idle /\ Tick
  \/ Respond

SpecFields == InitFields /\ [][NextFields]_vars

\* ---- a store with more posts than one default page ----

\* the most posts the store holds when the published route is called
MaxStored == 52

\* post i of the stored posts: created at tick i, in category 1 when i is even,
\* unpublished when i is a multiple of every (every = 0: all published)
StoredPost(i, every) ==
  InsertedPost(i, [title |-> Titles[1], content |-> Contents[1], author |-> Authors[1],
                   slug |-> "post-" \o ToString(i),
                   published |-> (every = 0 \/ i % every # 0),
                   category_id |-> IF i % 2 = 0 THEN 1 ELSE NULL], i)

\* every third stored post carries tag 1
StoredTagRows(n) ==
  LET rows == {[blog_post_id |-> i, tag_id |-> 1] : i \in {j \in 1..n : j % 3 = 0}}
  IN  [r \in rows |-> 1]

InitPublished ==
  /\ categories = {CategoryRow(i) : i \in 1..NumCategories}
  /\ tags = {TagRow(i) : i \in 1..NumTags}
  /\ \E n \in (0..2) \cup ((MaxStored - 2)..MaxStored), every \in {0, 2, MaxStored} :
       /\ blog_posts = {StoredPost(i, every) : i \in 1..n}
       /\ blog_post_tags = StoredTagRows(n)
       /\ blog_posts_id_seq = n
       /\ now = n
  /\ ret = [op |-> "none"]
  /\ categories_id_seq = NumCategories
  /\ tags_id_seq = NumTags
  /\ clients = [p \in Clients |-> NoCall]

PublishedRouteArgs ==
  {<<>>} \cup
  {<<p @@ l @@ o @@ c @@ t>> :
     p \in Optional("published", BOOLEAN),
     l \in Optional("limit", {1}),
     o \in Optional("offset", {1}),
     c \in Optional("category_id", {1}),
     t \in Optional("tag_id", {1})}

NextPublished ==
  \/ Idle /\ \E args \in PublishedRouteArgs : getPublishedBlogPosts(args)
  \/ Respond

SpecPublished == InitPublished /\ [][NextPublished]_vars

\* ---- an update and a delete of one post ----
\* One client updates the tags of the first post while the other deletes the
\* post, store call by store call; posts are created while no call is under way.
UpdateDeleteCreateInputs ==
  {base @@ t : base \in CreateFields({Slugs[1], Slugs[2]}, {TRUE}, {NULL}),
               t \in Optional("tag_ids", {<<1>>})}

UpdateDeleteUpdateInputs ==
  {base @@ f : base \in [id : {1}, tag_ids : {<<1>>, <<1, 2>>}],
               f \in Optional("title", {Titles[2]})}

NextUpdateDelete ==
  \/ Idle /\ NoneInFlight /\ \E input \in UpdateDeleteCreateInputs : createBlogPost(input)
  \/ Idle /\ \E input \in UpdateDeleteUpdateInputs : Begin("c1", "updateBlogPost", input)
  \/ Idle /\ \E input \in [id : {1}] : Begin("c2", "deleteBlogPost", input)
  \/ Idle /\ \E p \in Racing : Step(p)
  \/ Respond

SpecUpdateDelete == Init /\ [][NextUpdateDelete]_vars

\* ---- two updates of one post ----
\* Two clients replace the tags of the first post, store call by store call;
\* posts are created while no call is under way.
TwoUpdatesCreateInputs == CreateFields({Slugs[1], Slugs[2]}, {TRUE}, {NULL})

TwoUpdatesInputs == [id : {1}, tag_ids : {<<1>>, <<2>>}]

NextTwoUpdates ==
  \/ Idle /\ NoneInFlight /\ \E input \in TwoUpdatesCreateInputs : createBlogPost(input)
  \/ Idle /\ \E p \in Racing, input \in TwoUpdatesInputs : Begin(p, "updateBlogPost", input)
  \/ Idle /\ \E p \in Racing : Step(p)
  \/ Respond

SpecTwoUpdates == Init /\ [][NextTwoUpdates]_vars

\* ==== properties ====
\* Each is a predicate on the state a handler call leaves: ret holds the call
\* (input, outcome, store calls) and ret.before the tables it started from.

\* the rows of a blog_post_tags table for the pair (p, t)
Rows(table, p, t) == CopiesIn([blog_post_id |-> p, tag_id |-> t], table)

\* the post's rows are one row for each id of a set of tag ids, and no other
HasExactlyTags(p, ids) ==
  /\ \A r \in DOMAIN blog_post_tags :
       r.blog_post_id = p => r.tag_id \in ids /\ blog_post_tags[r] = 1
  /\ \A t \in ids : Rows(blog_post_tags, p, t) = 1

TagIdsOf(input) == IF Has(input, "tag_ids") THEN Range(input.tag_ids) ELSE {}

ExistingIds(table) == {r.id : r \in table}

\* the input names a category (non-null) that is no row of the table
DanglingCategory(input, table) ==
  Has(input, "category_id") /\ input.category_id # NULL
    /\ input.category_id \notin ExistingIds(table)

\* the input names a tag that is no row of the table
DanglingTags(input, table) == TagIdsOf(input) \ ExistingIds(table) # {}

DuplicateSlug(r) == r.status = "threw" /\ r.value.msg = "duplicate key"

\* every store call of the handler call was a read
OnlyReads(r) == \A i \in DOMAIN r.calls : r.calls[i].call \in
                  {"select categories", "select tags", "select blog_posts"}

\* lists whose entries never decrease
IsAscending(s) == \A i, j \in DOMAIN s : i < j => s[i] <= s[j]

\* the rows of every pair that satisfies keep are the same in both tables
SameRows(a, b, keep(_)) ==
  \A r \in DOMAIN a \cup DOMAIN b : keep(r) => CopiesIn(r, a) = CopiesIn(r, b)

\* C1: a createBlogPost whose category and tag references all exist (and whose
\* slug is free) succeeds, and the new post's association rows are exactly one
\* row per distinct id of tag_ids, none when tag_ids is absent or empty.
C1_ValidCreateStoresTagSet ==
  (/\ ret.op = "createBlogPost"
   /\ ~DanglingCategory(ret.input, ret.before.categories)
   /\ ~DanglingTags(ret.input, ret.before.tags)
   /\ ~DuplicateSlug(ret))
  => /\ ret.status = "returned"
     /\ HasExactlyTags(ret.value.id, TagIdsOf(ret.input))

\* C2: after a successful updateBlogPost with tag_ids, the post's association
\* rows are exactly one row per distinct id of tag_ids.
C2_UpdateStoresTagSet ==
  (/\ ret.op = "updateBlogPost"
   /\ ret.status = "returned"
   /\ Has(ret.input, "tag_ids"))
  => HasExactlyTags(ret.input.id, TagIdsOf(ret.input))

\* C3: the association table holds at most one row per (blog_post_id, tag_id).
C3_AtMostOneRowPerPair ==
  \A r \in DOMAIN blog_post_tags : blog_post_tags[r] <= 1

\* C4: an updateBlogPost of an existing post whose input names a category or a
\* tag that does not exist fails with the dangling-reference error before any
\* mutating store call: the post rows and the association rows are unchanged.
C4_UpdateRejectsDanglingRefs ==
  (/\ ret.op = "updateBlogPost"
   /\ SelectWhereId(ret.before.blog_posts, ret.input.id) # {}
   /\ \/ DanglingCategory(ret.input, ret.before.categories)
      \/ DanglingTags(ret.input, ret.before.tags))
  => /\ ret.status = "threw"
     /\ ret.value.msg \in {"Category does not exist", "Tags do not exist"}
     /\ OnlyReads(ret)
     /\ blog_posts = ret.before.blog_posts
     /\ blog_post_tags = ret.before.blog_post_tags

\* C5: createBlogPost with a non-null category_id of no category (0 included)
\* fails with the dangling-category error naming that id, and the post table
\* and the association table are unchanged.
C5_CreateRejectsDanglingCategory ==
  (/\ ret.op = "createBlogPost"
   /\ DanglingCategory(ret.input, ret.before.categories))
  => /\ ret.status = "threw"
     /\ ret.value = [msg |-> "Category does not exist", id |-> ret.input.category_id]
     /\ blog_posts = ret.before.blog_posts
     /\ blog_post_tags = ret.before.blog_post_tags

\* the createBlogPost calls C6 is about: tag_ids names a tag that is no row,
\* and the category check, which comes first, did not throw
CreateWithMissingTags ==
  /\ ret.op = "createBlogPost"
  /\ DanglingTags(ret.input, ret.before.tags)
  /\ ~(Truthy(ret.input, "category_id")
         /\ DanglingCategory(ret.input, ret.before.categories))

\* C6 as stated: createBlogPost whose tag_ids name a missing tag fails with the
\* dangling-tag error, which names the missing ids in ascending numeric order
\* whatever their order in the input; no post or association row is inserted.
C6_MissingTagsNamedAscending ==
  CreateWithMissingTags
  => /\ ret.status = "threw"
     /\ ret.value.msg = "Tags do not exist"
     /\ Range(ret.value.ids) = TagIdsOf(ret.input) \ ExistingIds(ret.before.tags)
     /\ IsAscending(ret.value.ids)
     /\ blog_posts = ret.before.blog_posts
     /\ blog_post_tags = ret.before.blog_post_tags

\* C6 as amended: createBlogPost whose tag_ids name a missing tag and whose
\* category check passed fails with the dangling-tag error; the error names the
\* entries of tag_ids that match no tag, in the order (and as often as) they
\* appear in tag_ids; no post row and no association row is inserted.
C6_MissingTagsNamedInInputOrder ==
  CreateWithMissingTags
  => /\ ret.status = "threw"
     /\ ret.value = [msg |-> "Tags do not exist",
                     ids |-> SelectSeq(ret.input.tag_ids,
                               LAMBDA id : id \notin ExistingIds(ret.before.tags))]
     /\ blog_posts = ret.before.blog_posts
     /\ blog_post_tags = ret.before.blog_post_tags

\* a create was refused naming two missing tags, the larger id first
C6_Witness ==
  /\ CreateWithMissingTags
  /\ ret.status = "threw"
  /\ Len(ret.value.ids) = 2
  /\ ret.value.ids[1] > ret.value.ids[2]

\* C7: updateBlogPost without tag_ids leaves every association row as it was;
\* updateBlogPost with tag_ids changes rows of the target post only.
C7_UpdateTagFrame ==
  ret.op = "updateBlogPost"
  => IF Has(ret.input, "tag_ids")
     THEN LET other(r) == r.blog_post_id # ret.input.id
          IN  SameRows(ret.before.blog_post_tags, blog_post_tags, other)
     ELSE blog_post_tags = ret.before.blog_post_tags

\* an update without tag_ids succeeded on a post that has association rows,
\* while another post has rows too
C7_Witness ==
  /\ ret.op = "updateBlogPost"
  /\ ret.status = "returned"
  /\ ~Has(ret.input, "tag_ids")
  /\ \E r \in DOMAIN ret.before.blog_post_tags : r.blog_post_id = ret.input.id
  /\ \E r \in DOMAIN ret.before.blog_post_tags : r.blog_post_id # ret.input.id

\* C8: deleteBlogPost on an existing post removes the post row and all of its
\* association rows and returns success = true; on an id of no post it returns
\* success = false and removes no post row; every other post row, the rows of
\* other posts, the tags and the categories stay as they were.
C8_DeleteBlogPost ==
  ret.op = "deleteBlogPost"
  => LET id == ret.input.id
         existed == \E p \in ret.before.blog_posts : p.id = id
         other(r) == r.blog_post_id # id
     IN  /\ ret.status = "returned"
         /\ ret.value = [success |-> existed]
         /\ blog_posts = {p \in ret.before.blog_posts : p.id # id}
         /\ existed => \A r \in DOMAIN blog_post_tags : other(r)
         /\ SameRows(ret.before.blog_post_tags, blog_post_tags, other)
         /\ tags = ret.before.tags
         /\ categories = ret.before.categories

\* a post with association rows was deleted while another post with rows remains
C8_Witness ==
  /\ ret.op = "deleteBlogPost"
  /\ ret.value.success
  /\ \E r \in DOMAIN ret.before.blog_post_tags : r.blog_post_id = ret.input.id
  /\ \E p \in blog_posts : \E r \in DOMAIN blog_post_tags : r.blog_post_id = p.id

\* C9: deleteTag on an existing tag removes the tag row and every association
\* row of that tag, returns success = true, and leaves every post row and the
\* rows of every other tag as they were.
C9_DeleteTag ==
  (ret.op = "deleteTag" /\ ret.input.id \in ExistingIds(ret.before.tags))
  => LET id == ret.input.id
         other(r) == r.tag_id # id
     IN  /\ ret.status = "returned"
         /\ ret.value = [success |-> TRUE]
         /\ tags = {t \in ret.before.tags : t.id # id}
         /\ \A r \in DOMAIN blog_post_tags : other(r)
         /\ SameRows(ret.before.blog_post_tags, blog_post_tags, other)
         /\ blog_posts = ret.before.blog_posts

\* a tag associated with two posts was deleted, and rows of another tag remain
C9_Witness ==
  /\ ret.op = "deleteTag"
  /\ ret.status = "returned"
  /\ Cardinality({r.blog_post_id : r \in {x \in DOMAIN ret.before.blog_post_tags :
                                            x.tag_id = ret.input.id}}) = 2
  /\ Cardinality(blog_posts) = 2
  /\ blog_post_tags # EmptyBag

\* C10: deleteTag on an id of no tag raises the not-found error; deleteCategory
\* on an id of no category returns success = false without raising and leaves
\* the categories as they were.
C10_DeleteMissingRow ==
  /\ (ret.op = "deleteTag" /\ ret.input.id \notin ExistingIds(ret.before.tags))
     => /\ ret.status = "threw"
        /\ ret.value = [msg |-> "Tag not found", id |-> ret.input.id]
  /\ (ret.op = "deleteCategory"
        /\ ret.input.id \notin ExistingIds(ret.before.categories))
     => /\ ret.status = "returned"
        /\ ret.value = [success |-> FALSE]
        /\ categories = ret.before.categories

\* deleteCategory reported success = false while there are categories to delete
C10_Witness ==
  /\ ret.op = "deleteCategory"
  /\ ret.value = [success |-> FALSE]
  /\ categories # {}

\* ---- reads ----
IsNull(post) == Has(post, "null")

\* the post's category_id names no category row
HasDanglingCategory(post) ==
  post.category_id # NULL /\ post.category_id \notin ExistingIds(categories)

\* C11: deleteCategory(c) changes no post row, so every post of category c
\* keeps its category_id; and a post whose category is gone is still read:
\* getBlogPosts returns it, unfiltered and filtered by its category_id, and
\* getBlogPost returns it by id and by slug when it is published (none of the
\* reads raises)
C11_DeleteCategoryLeavesPostsReadable ==
  /\ ret.op = "deleteCategory"
       => ret.status = "returned" /\ blog_posts = ret.before.blog_posts
  /\ ret.op \in {"getBlogPost", "getBlogPosts"} => ret.status = "returned"
  /\ \A post \in blog_posts :
       HasDanglingCategory(post) =>
         /\ \A results \in GetBlogPostsOutcomes(Store, <<>>) : post \in Range(results)
         /\ \A results \in GetBlogPostsOutcomes(Store, <<[category_id |-> post.category_id]>>) :
              post \in Range(results)
         /\ post.published =>
              /\ GetBlogPostOutcomes(Store, [id |-> post.id]) = {post}
              /\ GetBlogPostOutcomes(Store, [slug |-> post.slug]) = {post}

\* getBlogPost has returned a post whose category was deleted
C11_Witness ==
  /\ ret.op = "getBlogPost"
  /\ ~IsNull(ret.value)
  /\ HasDanglingCategory(ret.value)
  /\ ret.value \in blog_posts

\* the post satisfies the id or slug the input carries
MatchesCriteria(input, post) ==
  \/ Has(input, "id") /\ post.id = input.id
  \/ Has(input, "slug") /\ post.slug = input.slug

\* C12: getBlogPost never returns an unpublished post, and returns null
\* (it does not raise) when no published post has the requested id or slug
C12_OnlyPublishedOrNull ==
  ret.op = "getBlogPost"
  => /\ ret.status = "returned"
     /\ IsNull(ret.value) \/ ret.value.published
     /\ (\A post \in ret.before.blog_posts :
           MatchesCriteria(ret.input, post) => ~post.published)
          => IsNull(ret.value)

\* null was returned although an unpublished post has the requested id
C12_Witness ==
  /\ ret.op = "getBlogPost"
  /\ IsNull(ret.value)
  /\ \E post \in blog_posts :
       ~post.published /\ Has(ret.input, "id") /\ post.id = ret.input.id

\* C13: given both id and slug, getBlogPost returns a published post that has
\* the id or the slug whenever there is one
C13_EitherIdOrSlug ==
  (ret.op = "getBlogPost" /\ Has(ret.input, "id") /\ Has(ret.input, "slug"))
  => LET matches == {post \in ret.before.blog_posts :
                       /\ post.published
                       /\ post.id = ret.input.id \/ post.slug = ret.input.slug}
     IN  matches # {} => ret.value \in matches

\* the id is that of one published post, the slug that of another
C13_Witness ==
  /\ ret.op = "getBlogPost"
  /\ ~IsNull(ret.value)
  /\ Has(ret.input, "id") /\ Has(ret.input, "slug")
  /\ \E p, q \in blog_posts :
       /\ p.id = ret.input.id /\ q.slug = ret.input.slug
       /\ p # q /\ p.published /\ q.published

\* ---- lists ----
\* the posts of store s that satisfy every filter the input carries
Matches(s, args) ==
  {post \in s.blog_posts :
     HasInput(args) =>
       /\ Has(args[1], "published") => post.published = args[1].published
       /\ Has(args[1], "category_id") => post.category_id = args[1].category_id
       /\ Has(args[1], "tag_id") => Rows(s.blog_post_tags, post.id, args[1].tag_id) > 0}

NewestFirst(posts) ==
  \A i, j \in DOMAIN posts : i < j => posts[i].created_at >= posts[j].created_at

\* the page asked for starts at the first match and has room for every match
HoldsAllMatches(s, args) ==
  HasInput(args) =>
    /\ ValueOr(args[1], "offset", 0) = 0
    /\ ValueOr(args[1], "limit", 50) >= Cardinality(Matches(s, args))

\* C14: when the page can hold all matches, getBlogPosts returns exactly the
\* posts that satisfy every supplied filter, newest first
C14_FiltersExactNewestFirst ==
  (ret.op = "getBlogPosts" /\ HoldsAllMatches(ret.before, ret.input))
  => /\ ret.status = "returned"
     /\ Range(ret.value) = Matches(ret.before, ret.input)
     /\ NewestFirst(ret.value)

\* C15: with tag_id set, getBlogPosts returns no post twice
C15_TagFilterReturnsPostOnce ==
  (ret.op = "getBlogPosts" /\ HasInput(ret.input) /\ Has(ret.input[1], "tag_id"))
  => \A i, j \in DOMAIN ret.value : i # j => ret.value[i].id # ret.value[j].id

\* the input of the page that starts at the given offset
PageAt(args, offset) == <<[offset |-> offset] @@ args[1]>>

\* C16: on an unchanged store getBlogPosts has one possible result for an
\* input, and the pages at offsets 0, L, 2L, ... of a query with limit L hold
\* each matching post exactly once: one page holds it once, whatever that
\* page's query returns, and no other page ever holds it
C16_DeterministicStablePages ==
  ret.op = "getBlogPosts"
  => /\ GetBlogPostsOutcomes(ret.before, ret.input) = {ret.value}
     /\ (HasInput(ret.input) /\ Has(ret.input[1], "limit"))
        => LET limit == ret.input[1].limit
               pages == 0..Cardinality(ret.before.blog_posts)
               Page(k) == GetBlogPostsOutcomes(ret.before, PageAt(ret.input, k * limit))
               Count(post, page) == Cardinality({i \in DOMAIN page : page[i] = post})
           IN  \A post \in Matches(ret.before, ret.input) :
                 \E k \in pages :
                   /\ \A page \in Page(k) : Count(post, page) = 1
                   /\ \A other \in pages \ {k} :
                        \A page \in Page(other) : Count(post, page) = 0

\* the sequences that hold each of the posts once, newest first
OrderedMatches(posts) == {ordered \in Orderings(posts) : NewestFirst(ordered)}

\* C17: with an input getBlogPosts returns the posts at positions offset + 1
\* to offset + limit of the ordered matches (limit 50 and offset 0 when
\* omitted), so at most limit posts; with no input it returns every post
C17_PageOfOrderedMatches ==
  ret.op = "getBlogPosts"
  => \E ordered \in OrderedMatches(Matches(ret.before, ret.input)) :
       IF HasInput(ret.input)
       THEN LET limit == ValueOr(ret.input[1], "limit", 50)
                offset == ValueOr(ret.input[1], "offset", 0)
            IN  /\ Len(ret.value) <= limit
                /\ ret.value = SubSeq(ordered, offset + 1, Min(Len(ordered), offset + limit))
       ELSE ret.value = ordered

\* ---- updates ----
\* the table of the store that the update handler writes
TableOf(s, op) ==
  CASE op = "updateBlogPost" -> s.blog_posts
    [] op = "updateCategory" -> s.categories
    [] op = "updateTag" -> s.tags

Updates == {"updateBlogPost", "updateCategory", "updateTag"}

NotFound(r) ==
  /\ r.status = "threw"
  /\ r.value.msg \in {"Blog post not found", "Category not found", "Tag not found"}
  /\ r.value.id = r.input.id

\* C18: an update of a post, category or tag by an id of no existing row
\* fails with the not-found error of that id and leaves all four tables as
\* they were
C18_UpdateOfMissingRow ==
  (ret.op \in Updates /\ ret.input.id \notin ExistingIds(TableOf(ret.before, ret.op)))
  => /\ NotFound(ret)
     /\ Store = ret.before

\* a post with association rows exists, and an update that carries tag_ids
\* named a post that does not
C18_Witness ==
  /\ ret.op = "updateBlogPost"
  /\ NotFound(ret)
  /\ Has(ret.input, "tag_ids") /\ Len(ret.input.tag_ids) > 0
  /\ BagCardinality(blog_post_tags) > 0

\* the row of the table with this id
RowOf(table, id) == CHOOSE r \in table : r.id = id

ScalarFields == {"title", "content", "slug", "excerpt", "published",
                 "publication_date", "category_id", "author"}

\* C19: a successful updateBlogPost gives each scalar field present in the
\* input the input's value (null included) and leaves every absent one, the
\* id and created_at as they were; no other post changes; and the post
\* returned is the stored row
C19_UpdateWritesPresentFields ==
  (ret.op = "updateBlogPost" /\ ret.status = "returned")
  => LET id == ret.input.id
         prev == RowOf(ret.before.blog_posts, id)
         post == RowOf(blog_posts, id)
     IN  /\ Cardinality({r \in blog_posts : r.id = id}) = 1
         /\ \A f \in ScalarFields :
              post[f] = IF Has(ret.input, f) THEN ret.input[f] ELSE prev[f]
         /\ post.id = prev.id /\ post.created_at = prev.created_at
         /\ DOMAIN post = ScalarFields \cup {"id", "created_at", "updated_at"}
         /\ {r \in blog_posts : r.id # id} = {r \in ret.before.blog_posts : r.id # id}
         /\ ret.value = post

\* an update cleared the excerpt with a null, set the author, and kept a
\* title that an earlier update had written
C19_Witness ==
  /\ ret.op = "updateBlogPost" /\ ret.status = "returned"
  /\ Has(ret.input, "excerpt") /\ ret.input.excerpt = NULL
  /\ RowOf(ret.before.blog_posts, ret.input.id).excerpt # NULL
  /\ Has(ret.input, "author")
  /\ RowOf(ret.before.blog_posts, ret.input.id).author # ret.input.author
  /\ ~Has(ret.input, "title")
  /\ RowOf(blog_posts, ret.input.id).title = Titles[2]
  /\ RowOf(blog_posts, ret.input.id).updated_at > RowOf(blog_posts, ret.input.id).created_at

\* the row an update of a post or a category wrote, and the row it replaced
Stamped == {"updateBlogPost", "updateCategory"}
Written(r) == RowOf(TableOf(Store, r.op), r.input.id)
Replaced(r) == RowOf(TableOf(r.before, r.op), r.input.id)

UniqueSlugs(table) == \A a, b \in table : a.slug = b.slug => a = b

\* C21: after any sequence or interleaving of category, tag and post creates
\* and updates no two rows of a table share a slug, and a call that ended
\* with the duplicate-slug error changed no table (the association rows
\* included)
C21_SlugsStayUnique ==
  /\ UniqueSlugs(categories) /\ UniqueSlugs(tags) /\ UniqueSlugs(blog_posts)
  /\ (ret.op \in {"createCategory", "createTag", "updateCategory", "updateTag"}
        /\ DuplicateSlug(ret)) => Store = ret.before
  /\ (ret.op \in {"createBlogPost", "updateBlogPost"} /\ DuplicateSlug(ret))
       => ~ret.changed

\* an updateBlogPost with tag_ids for a post that has association rows ended
\* with the duplicate-slug error, after a store call of another client
C21_Witness ==
  /\ ret.op = "updateBlogPost"
  /\ DuplicateSlug(ret)
  /\ Has(ret.input, "tag_ids")
  /\ CountBlogPostTagsWhere(blog_post_tags, "blog_post_id", ret.input.id) > 0
  /\ ret.raced

\* ---- C22 ----
\* the store calls the call made itself, by name
OwnCalls(r) == {r.calls[i].call : i \in DOMAIN r.calls}

\* the tags of the call's tag_ids that are no rows of the tags table now
TagsGone(r) == Range(r.input.tag_ids) \ ExistingIds(tags)

\* a createBlogPost call has ended that found all its tags on validation and
\* whose insert of the post was accepted, and a tag of it has been deleted
\* since: deleteTag deleted the tag row between the validation and the insert
\* of the association rows
TagDeletedUnderCreate ==
  /\ ret.op = "createBlogPost"
  /\ {"select tags", "insert blog_posts"} \subseteq OwnCalls(ret)
  /\ ~DuplicateSlug(ret)
  /\ TagsGone(ret) # {}

\* C22: when deleteTag(t) executes between createBlogPost's tag validation and
\* its insert of the association rows, createBlogPost returns its post all the
\* same and the tables then hold an association row of the post whose tag_id
\* is no tag row; a deleteTag that found its tag reports success
C22_RaceLeavesDanglingRow ==
  /\ TagDeletedUnderCreate =>
       /\ ret.status = "returned"
       /\ ret.value \in blog_posts
       /\ \A t \in TagsGone(ret) :
            CopiesIn([blog_post_id |-> ret.value.id, tag_id |-> t], blog_post_tags) > 0
  /\ (ret.op = "deleteTag" /\ ret.calls[Len(ret.calls)].rows > 0)
       => ret.status = "returned" /\ ret.value = [success |-> TRUE]

\* the race has happened: store calls of the other client ran during the call
C22_Witness == TagDeletedUnderCreate /\ ret.raced /\ ret.status = "returned"

\* ---- C23 ----
\* the tables without the updated_at of the posts
WithoutUpdatedAt(s) ==
  [s EXCEPT !.blog_posts = {[f \in DOMAIN row \ {"updated_at"} |-> row[f]] : row \in @}]

\* the tables a single run of the call, with no failure, leaves when it finds
\* the tables the call found at first
SingleRun(r) ==
  TablesOf(Uninterrupted(NewCall(r.client, r.op, r.input, r.before),
                         r.before @@ [blog_posts_id_seq |-> blog_posts_id_seq], now).db)

\* a call that was made again after a store failure has run to its end
Retried(r) ==
  /\ r.op \in {"updateBlogPost", "deleteBlogPost", "deleteTag", "deleteCategory"}
  /\ r.status \in {"returned", "threw"}
  /\ r.attempts > 0

\* C23: when a store call of updateBlogPost, deleteBlogPost, deleteTag or
\* deleteCategory has failed after any of the call's store calls and the call
\* is made again and runs to its end, the tables are the ones a single run
\* without failure leaves, the updated_at of the posts aside
C23_RetryIsSafe ==
  Retried(ret) => WithoutUpdatedAt(Store) = WithoutUpdatedAt(SingleRun(ret))

\* an updateBlogPost that replaces tags was made again after the failed
\* attempt had updated the post and deleted its association rows
C23_Witness ==
  /\ Retried(ret)
  /\ ret.op = "updateBlogPost"
  /\ ret.status = "returned"
  /\ ret.lost >= 3
  /\ Store # ret.before

\* ---- C24 ----
\* createBlogPost has just returned a published post without category and
\* without tag_ids
CreatedPlain(r) ==
  /\ r.op = "createBlogPost"
  /\ r.status = "returned"
  /\ r.input.published = TRUE
  /\ r.input.category_id = NULL
  /\ ~Has(r.input, "tag_ids")

\* the post carries the values given to create (null for one not given)
CarriesGiven(post, input) ==
  /\ post # NullPost
  /\ \A f \in {"title", "content", "slug", "published", "category_id", "author"} :
       post[f] = input[f]
  /\ \A f \in {"excerpt", "publication_date"} :
       post[f] = (IF Has(input, f) THEN input[f] ELSE NULL)

\* C24: round trip: getBlogPost by the slug of a post that createBlogPost has
\* just returned (published = true, category_id = null, no tag_ids) returns a
\* post whose title, content, slug, excerpt, published, publication_date,
\* category_id and author are the values given to create, and the tags it
\* collects for the post are none
C24_RoundTrip ==
  [][(CreatedPlain(ret) /\ ret'.op = "getBlogPost" /\ ret'.input = [slug |-> ret.input.slug])
       => /\ CarriesGiven(ret'.value, ret.input)
          /\ UniqueTags(GetBlogPostResults(Store, ret'.input)) = {}
          /\ CountBlogPostTagsWhere(blog_post_tags, "blog_post_id", ret'.value.id) = 0]_vars

\* getBlogPost by slug has returned a published post without category and
\* tags, with an excerpt and a publication date, from a table of two posts
C24_Witness ==
  /\ ret.op = "getBlogPost"
  /\ DOMAIN ret.input = {"slug"}
  /\ ret.value # NullPost
  /\ ret.value.category_id = NULL
  /\ ret.value.excerpt # NULL
  /\ ret.value.publication_date # NULL
  /\ CountBlogPostTagsWhere(blog_post_tags, "blog_post_id", ret.value.id) = 0
  /\ Cardinality(blog_posts) > 1

\* ---- C25 ----
\* C25: with the operations executed one at a time, every association row
\* references a post row and a tag row, after any sequence of createBlogPost,
\* updateBlogPost, deleteBlogPost and deleteTag calls
C25_RowsReferenceExistingRows ==
  \A r \in DOMAIN blog_post_tags :
    /\ r.blog_post_id \in ExistingIds(blog_posts)
    /\ r.tag_id \in ExistingIds(tags)

\* ---- C26 ----
\* createBlogPost has thrown its tags-do-not-exist error
TagsDoNotExist ==
  /\ ret.op = "createBlogPost"
  /\ ret.status = "threw"
  /\ ret.value.msg = "Tags do not exist"

\* the positions of tag_ids whose id is no row of the tags table
MissingAt(tag_ids, table) == {i \in DOMAIN tag_ids : tag_ids[i] \notin ExistingIds(table)}

\* the k-th smallest number of a set of numbers
Nth(set, k) == CHOOSE i \in set : Cardinality({j \in set : j <= i}) = k

\* C26: the tags-do-not-exist error of createBlogPost names the requested ids
\* that match no tag, each position of tag_ids that holds one, in the order of
\* tag_ids, and never an id of an existing tag
C26_ErrorNamesMissingIdsInOrder ==
  TagsDoNotExist =>
    LET missing == MissingAt(ret.input.tag_ids, ret.before.tags)
    IN  /\ Len(ret.value.ids) = Cardinality(missing)
        /\ \A k \in DOMAIN ret.value.ids :
             ret.value.ids[k] = ret.input.tag_ids[Nth(missing, k)]
        /\ Range(ret.value.ids) \cap ExistingIds(ret.before.tags) = {}

\* the error names the one missing id of a list that also holds the id of an
\* existing tag
C26_Witness ==
  /\ TagsDoNotExist
  /\ Range(ret.input.tag_ids) \cap ExistingIds(ret.before.tags) # {}
  /\ Len(ret.value.ids) = 1

\* ---- C27 ----
\* C27: when deleteTag fails with the not-found error the tables are as the
\* call found them: it has removed no association row, whatever rows of tags
\* that are no rows the table held
C27_FailedDeleteTagChangesNothing ==
  (ret.op = "deleteTag" /\ NotFound(ret)) => Store = ret.before

\* the caller's input to the published route, an empty object when none came
CallerInput(args) == IF HasInput(args) THEN args[1] ELSE <<>>

\* the published posts that pass the caller's category and tag filters
PublishedWanted(input) ==
  {post \in blog_posts :
     /\ post.published = TRUE
     /\ Has(input, "category_id") => post.category_id = input.category_id
     /\ Has(input, "tag_id") => Rows(blog_post_tags, post.id, input.tag_id) > 0}

\* how many of the posts are newer than post
NewerIn(posts, post) == Cardinality({q \in posts : q.created_at > post.created_at})

\* C28: getPublishedBlogPosts never returns an unpublished post, whatever
\* published value the caller sent; it returns, newest first, the page the
\* caller's limit and offset cut from the published posts that pass the
\* caller's other filters, and with no input the page is the first 50
C28_PublishedRouteForcesPublished ==
  ret.op = "getPublishedBlogPosts" =>
    LET input == CallerInput(ret.input)
        wanted == PublishedWanted(input)
        limit == ValueOr(input, "limit", DefaultLimit)
        offset == ValueOr(input, "offset", DefaultOffset)
    IN  /\ ret.status = "returned"
        /\ \A i \in DOMAIN ret.value : ret.value[i].published = TRUE
        /\ Range(ret.value) = {post \in wanted : /\ offset <= NewerIn(wanted, post)
                                                 /\ NewerIn(wanted, post) < offset + limit}
        /\ NewestFirst(ret.value)
        /\ Len(ret.value) = Cardinality(Range(ret.value))
        /\ ~HasInput(ret.input) => Len(ret.value) <= DefaultLimit

\* the caller asked for unpublished posts and no page size, the store holds an
\* unpublished post and more than 50 published ones, and 50 posts came back
C28_Witness ==
  /\ ret.op = "getPublishedBlogPosts"
  /\ HasInput(ret.input)
  /\ ret.input[1] = [published |-> FALSE]
  /\ \E post \in blog_posts : ~post.published
  /\ Cardinality({post \in blog_posts : post.published}) > DefaultLimit
  /\ Len(ret.value) = DefaultLimit

\* C29: however the store calls of updateBlogPost (with non-empty tag_ids) and
\* deleteBlogPost of the same post interleave, updateBlogPost throws not-found
\* or returns the updated row of the post, never undefined, and when both
\* calls have ended no association row names a post that is no row
C29_UpdateUnderDelete ==
  /\ (ret.op = "updateBlogPost" /\ Len(ret.input.tag_ids) > 0) =>
       \/ ret.status = "threw" /\ ret.value.msg = "Blog post not found"
       \/ /\ ret.status = "returned"
          /\ ret.value # Undefined
          /\ ret.value.id = ret.input.id
  /\ (ret.op \in {"updateBlogPost", "deleteBlogPost"} /\ NoneInFlight) =>
       \A r \in DOMAIN blog_post_tags : r.blog_post_id \in ExistingIds(blog_posts)

\* the association rows of a post
RowsOfPost(table, post_id) ==
  [r \in {x \in DOMAIN table : x.blog_post_id = post_id} |-> table[r]]

\* C30: when two updateBlogPost calls of one post, with tag_ids A and tag_ids
\* B, interleave their store calls and both have ended, the association rows
\* of the post are those of A or those of B, each (post, tag) pair once
C30_RowsOfOneUpdate ==
  (ret.op = "updateBlogPost" /\ ret.status = "returned" /\ NoneInFlight) =>
    \E input \in TwoUpdatesInputs :
      RowsOfPost(blog_post_tags, ret.input.id) = TagRows(ret.input.id, input.tag_ids)

====
